---------------------------- MODULE Spec2Model ----------------------------
(***************************************************************************)
(* Resident directory backend (Django + Django REST framework).            *)
(*                                                                         *)
(* The persisted store (Resident, Photo and User tables) is shared by the  *)
(* request workers.  No view of the repository opens a transaction, so     *)
(* each ORM statement of a handler commits on its own (Django's autocommit *)
(* mode); the only transactional scope in the code is the                  *)
(* transaction.atomic() block of PhotoSerializer.update.  A handler is     *)
(* therefore modelled as the sequence of its statements, one step each,    *)
(* and workers interleave between statements.                              *)
(*                                                                         *)
(* Strings that the code inspects (query parameters, resident fields) are  *)
(* sequences of one-character strings.                                     *)
(***************************************************************************)
EXTENDS Integers, Sequences, FiniteSets, TLC

VARIABLES residents, photos, nextRid, nextPid, users, req, pre, last

vars == <<residents, photos, nextRid, nextPid, users, req, pre, last>>

store == <<residents, photos, nextRid, nextPid, users>>

hist == <<pre, last>>

----------------------------------------------------------------------------
(* Bounds of the model *)

MaxResidents == 2

MaxPhotos == 2

MaxAccounts == 2

Workers == {"w1", "w2"}

----------------------------------------------------------------------------
(* Strings *)

Absent == <<"<None>">>

LowerChar(c) ==
    CASE c = "A" -> "a"
      [] c = "B" -> "b"
      [] c = "E" -> "e"
      [] c = "L" -> "l"
      [] c = "N" -> "n"
      [] c = "O" -> "o"
      [] c = "R" -> "r"
      [] c = "S" -> "s"
      [] c = "T" -> "t"
      [] c = "U" -> "u"
      [] c = "Y" -> "y"
      [] OTHER -> c

Lower(s) == [i \in 1..Len(s) |-> LowerChar(s[i])]

\* Python truthiness of a value read with query_params.get: None and ""
\* are falsy.
Truthy(s) == s # Absent /\ s # <<>>

\* field__icontains=q: q occurs in the field, letter case ignored.
IContains(field, q) ==
    \E i \in 0..(Len(field) - Len(q)) :
        Lower(SubSeq(field, i + 1, i + Len(q))) = Lower(q)

\* Code points of the characters the model uses, in ascending order.
CharOrder ==
    <<"1", "2", "4", "5", "@", "A", "B", "E", "L", "N", "O", "R", "S", "T",
      "U", "Y", "a", "b", "e", "f", "g", "l", "n", "o", "r", "s", "t", "u",
      "x", "y", "z">>

Code(c) == CHOOSE i \in 1..Len(CharOrder) : CharOrder[i] = c

RECURSIVE StrLeq(_, _)
StrLeq(a, b) ==
    IF a = <<>> THEN TRUE
    ELSE IF b = <<>> THEN FALSE
    ELSE IF Head(a) = Head(b) THEN StrLeq(Tail(a), Tail(b))
    ELSE Code(Head(a)) < Code(Head(b))

----------------------------------------------------------------------------
(* Access control *)

Roles == {"anonymous", "authenticated", "staff"}

is_authenticated(role) == role \in {"authenticated", "staff"}

is_staff(role) == role = "staff"

AllowAny(role) == TRUE

IsAuthenticated(role) == is_authenticated(role)

IsAdminUser(role) == is_staff(role)

\* The permission classes of a view that declares none (the health view):
\* the project's REST_FRAMEWORK default.
DefaultPermission(role) == AllowAny(role)

\* A mistaken policy: any logged-in user may delete a resident.
has_permission_destroy_unguarded(action, role) == is_authenticated(role)

\* ResidentPermissions.has_permission, by view.action.
has_permission(action, role) ==
    IF action = "destroy" THEN is_staff(role)
    ELSE IF action \in {"list", "retrieve"} THEN is_authenticated(role)
    ELSE IF action \in {"create", "update", "partial_update"}
         THEN is_authenticated(role)
    ELSE is_authenticated(role)

ResidentOps ==
    {"resident_list", "resident_create", "resident_retrieve",
     "resident_update", "resident_partial_update", "resident_destroy",
     "resident_photos_get", "resident_photos_post"}

PhotoOps == {"photo_retrieve", "photo_destroy", "photo_set_primary"}

OpenOps == {"health", "register", "token_obtain", "token_refresh"}

HttpOps == OpenOps \cup ResidentOps \cup PhotoOps \cup {"admin_summary"}

\* Calls made on the model layer directly, not routed through a view.
InternalOps == {"photo_save", "serializer_update"}

\* The DRF action name the router gives the request.
ViewAction(op) ==
    CASE op = "resident_list" -> "list"
      [] op = "resident_create" -> "create"
      [] op = "resident_retrieve" -> "retrieve"
      [] op = "resident_update" -> "update"
      [] op = "resident_partial_update" -> "partial_update"
      [] op = "resident_destroy" -> "destroy"
      [] op \in {"resident_photos_get", "resident_photos_post"} -> "photos"
      [] op = "photo_retrieve" -> "retrieve"
      [] op = "photo_destroy" -> "destroy"
      [] op = "photo_set_primary" -> "set_primary"
      [] OTHER -> "none"

\* check_permissions of the view the request is routed to.  An @action
\* that names permission_classes replaces the view set's classes.
check_permissions(op, role) ==
    CASE op = "health" -> DefaultPermission(role)
      [] op = "register" -> AllowAny(role)
      [] op \in {"token_obtain", "token_refresh"} -> AllowAny(role)
      [] op = "admin_summary" -> IsAdminUser(role)
      [] op \in {"resident_photos_get", "resident_photos_post"} ->
            IsAuthenticated(role)
      [] op \in ResidentOps \ {"resident_photos_get", "resident_photos_post"} ->
            has_permission(ViewAction(op), role)
      [] op \in PhotoOps -> IsAuthenticated(role)
      [] OTHER -> FALSE

----------------------------------------------------------------------------
(* The store *)

RIds == 1..MaxResidents

PIds == 1..MaxPhotos

NoPhotos == [p \in {} |-> [resident |-> 0, is_primary |-> FALSE]]

Usernames == {<<"a", "n", "n">>, <<"b", "o">>}

\* Resident.primary_photo ranges over these.
Primaries(ph, r) == {p \in DOMAIN ph : ph[p].resident = r /\ ph[p].is_primary}

PhotosOf(ph, r) == {p \in DOMAIN ph : ph[p].resident = r}

\* A demotion that forgets the owner.
DemoteAnyResident(ph, r, pk) ==
    [p \in DOMAIN ph |->
        IF ph[p].is_primary /\ p # pk
        THEN [ph[p] EXCEPT !.is_primary = FALSE] ELSE ph[p]]

\* A demotion that forgets to exclude the photo itself.
DemoteIncludingSelf(ph, r, pk) ==
    [p \in DOMAIN ph |->
        IF ph[p].resident = r /\ ph[p].is_primary
        THEN [ph[p] EXCEPT !.is_primary = FALSE] ELSE ph[p]]

\* A save that demotes nothing.
DemoteNothing(ph, r, pk) == ph

\* Photo.objects.filter(resident=r, is_primary=True).exclude(pk=pk)
\*      .update(is_primary=False), in Photo.save.
SaveDemote(ph, r, pk) ==
    [p \in DOMAIN ph |->
        IF ph[p].resident = r /\ ph[p].is_primary /\ p # pk
        THEN [ph[p] EXCEPT !.is_primary = FALSE] ELSE ph[p]]

\* The same statement in ResidentViewSet.photos (POST).
UploadDemote(ph, r, pk) ==
    [p \in DOMAIN ph |->
        IF ph[p].resident = r /\ ph[p].is_primary /\ p # pk
        THEN [ph[p] EXCEPT !.is_primary = FALSE] ELSE ph[p]]

\* The same statement in PhotoViewSet.set_primary.
SetPrimaryDemote(ph, r, pk) ==
    [p \in DOMAIN ph |->
        IF ph[p].resident = r /\ ph[p].is_primary /\ p # pk
        THEN [ph[p] EXCEPT !.is_primary = FALSE] ELSE ph[p]]

\* The same statement in PhotoSerializer.update.
UpdateDemote(ph, r, pk) ==
    [p \in DOMAIN ph |->
        IF ph[p].resident = r /\ ph[p].is_primary /\ p # pk
        THEN [ph[p] EXCEPT !.is_primary = FALSE] ELSE ph[p]]

\* A delete that leaves the resident's photos behind.
DeleteWithoutCascade(rs, ph, rid) ==
    [residents |-> [r \in DOMAIN rs \ {rid} |-> rs[r]], photos |-> ph]

\* Resident.delete(): on_delete=CASCADE removes the photos that reference
\* the resident together with the resident row.
CascadeDelete(rs, ph, rid) ==
    [residents |-> [r \in DOMAIN rs \ {rid} |-> rs[r]],
     photos |-> [p \in {x \in DOMAIN ph : ph[x].resident # rid} |-> ph[p]]]

----------------------------------------------------------------------------
(* Resident listing *)

NoResidents ==
    [r \in {} |->
        [first_name |-> <<>>, last_name |-> <<>>, apartment |-> <<>>,
         phone |-> <<>>, email |-> <<>>, is_active |-> TRUE]]

SearchFields(row) ==
    {row.first_name, row.last_name, row.apartment, row.phone, row.email}

\* The free-text filter with the phone column left out.
MatchesQWithoutPhone(row, q) ==
    \E f \in {row.first_name, row.last_name, row.apartment, row.email} :
        IContains(f, q)

\* Q(first_name__icontains=q) | Q(last_name__icontains=q) | ...
MatchesQ(row, q) == \E f \in SearchFields(row) : IContains(f, q)

\* is_active.lower() in ('1', 'true', 'yes')
ParseActive(is_active) ==
    Lower(is_active) \in {<<"1">>, <<"t", "r", "u", "e">>, <<"y", "e", "s">>}

\* The rows ResidentViewSet.get_queryset selects, before order_by.
FilterResidents(rs, q, apartment, is_active) ==
    LET s1 == IF Truthy(q)
              THEN {r \in DOMAIN rs : MatchesQ(rs[r], q)}
              ELSE DOMAIN rs
        s2 == IF Truthy(apartment)
              THEN {r \in s1 : rs[r].apartment = apartment}
              ELSE s1
    IN  IF is_active # Absent
        THEN {r \in s2 : rs[r].is_active = ParseActive(is_active)}
        ELSE s2

KeyLeq(a, b) ==
    IF a.last_name = b.last_name THEN StrLeq(a.first_name, b.first_name)
    ELSE StrLeq(a.last_name, b.last_name)

\* order_by('last_name', 'first_name'): every order of the rows that is
\* ascending in the key; the database picks the order of rows with equal
\* keys.
OrderBy(rs, S) ==
    {seq \in [1..Cardinality(S) -> S] :
        /\ \A i, j \in 1..Cardinality(S) : i # j => seq[i] # seq[j]
        /\ \A i \in 1..(Cardinality(S) - 1) :
              KeyLeq(rs[seq[i]], rs[seq[i + 1]])}

get_queryset(rs, q, apartment, is_active) ==
    OrderBy(rs, FilterResidents(rs, q, apartment, is_active))

\* Rows sent as request data by resident create.
ResidentData ==
    [first_name : {<<"A", "n", "n">>, <<"B", "o">>},
     last_name  : {<<"L", "e", "e">>},
     apartment  : {<<"4", "B">>, <<"2", "a">>},
     phone      : {<<"5">>},
     email      : {<<"x", "@", "y">>},
     is_active  : BOOLEAN]

DefaultResident ==
    [first_name |-> <<"A", "n", "n">>, last_name |-> <<"L", "e", "e">>,
     apartment |-> <<"4", "B">>, phone |-> <<"5">>,
     email |-> <<"x", "@", "y">>, is_active |-> TRUE]

QValues ==
    {Absent, <<>>, <<"l", "E">>, <<"a", "N">>, <<"4", "b">>, <<"5">>,
     <<"@">>, <<"z">>}

ApartmentValues == {Absent, <<>>, <<"4", "B">>, <<"4", "b">>, <<"2", "a">>}

IsActiveValues ==
    {Absent, <<>>, <<"1">>, <<"T", "r", "u", "e">>, <<"Y", "E", "S">>,
     <<"f", "a", "l", "s", "e">>, <<"o", "n">>}

NoParams == [q |-> Absent, apartment |-> Absent, is_active |-> Absent]

ListParams == [q : QValues, apartment : ApartmentValues, is_active : IsActiveValues]

----------------------------------------------------------------------------
(* Requests *)

\* A worker's request: its inputs, the model instance it holds in memory
\* (pid, resident, is_primary), its position in the handler and its
\* response; n is a row count the handler obtained, touched whether it has
\* read or written resident or photo rows.
Idle ==
    [pc |-> "idle", op |-> "none", role |-> "none", rid |-> 0, pid |-> 0,
     resident |-> 0, is_primary |-> FALSE, data |-> DefaultResident,
     data_primary |-> "absent", data_res |-> 0, valid |-> TRUE,
     username |-> Absent, password |-> Absent, params |-> NoParams,
     resp |-> "none", touched |-> FALSE, listing |-> <<>>, seen |-> 0,
     n |-> 0]

Tristate == {"absent", "true", "false"}

\* The request contents drawn for an operation; D is the set of resident
\* rows and P the set of list query parameters in use.
Inputs(op, D, P) ==
    CASE op = "register" ->
            {[Idle EXCEPT !.username = u, !.password = pw] :
                u \in Usernames \cup {Absent}, pw \in {Absent, <<"p", "w">>}}
      [] op = "resident_list" -> {[Idle EXCEPT !.params = x] : x \in P}
      [] op = "resident_create" ->
            {[Idle EXCEPT !.data = d, !.valid = v] : d \in D, v \in BOOLEAN}
      [] op \in {"resident_update", "resident_partial_update"} ->
            {[Idle EXCEPT !.rid = r, !.data = d, !.valid = v] :
                r \in RIds, d \in D, v \in BOOLEAN}
      [] op \in {"resident_retrieve", "resident_destroy",
                 "resident_photos_get"} ->
            {[Idle EXCEPT !.rid = r] : r \in RIds}
      [] op = "resident_photos_post" ->
            {[Idle EXCEPT !.rid = r, !.data_primary = t, !.valid = v] :
                r \in RIds, t \in Tristate, v \in BOOLEAN}
      [] op \in PhotoOps -> {[Idle EXCEPT !.pid = p] : p \in PIds}
      [] op = "photo_save" ->
            {[Idle EXCEPT !.pid = p, !.data_primary = t] :
                p \in PIds, t \in Tristate}
      [] op = "serializer_update" ->
            {[Idle EXCEPT !.pid = p, !.data_primary = t, !.data_res = r] :
                p \in PIds, t \in Tristate, r \in 0..MaxResidents}
      [] OTHER -> {Idle}

Pending(pcs) == Cardinality({v \in Workers : req[v].pc \in pcs})

PendingUploads ==
    Cardinality({v \in Workers :
        /\ req[v].op = "resident_photos_post"
        /\ req[v].pc \in {"get_resident", "validate", "save"}})

\* Room left in the bounded tables for the row the request may insert.
HasRoom(op, in) ==
    CASE op = "resident_create" -> nextRid + Pending({"create"}) <= MaxResidents
      [] op = "resident_photos_post" -> nextPid + PendingUploads <= MaxPhotos
      [] op = "register" ->
            \/ Len(users) + Pending({"register", "create_user"}) < MaxAccounts
            \/ ~Truthy(in.username) \/ ~Truthy(in.password)
            \/ \E i \in 1..Len(users) : users[i] = in.username
      [] OTHER -> TRUE

FirstPc(op) ==
    CASE op = "health" -> "health"
      [] op = "register" -> "register"
      [] op \in {"token_obtain", "token_refresh"} -> "token"
      [] op = "admin_summary" -> "summary"
      [] op = "resident_list" -> "list"
      [] op = "resident_create" -> "create"
      [] op \in ResidentOps \ {"resident_list", "resident_create"} ->
            "get_resident"
      [] OTHER -> "get_photo"

Finish(r, resp) == [r EXCEPT !.pc = "done", !.resp = resp]

Set(w, r) == req' = [req EXCEPT ![w] = r]

\* APIView.dispatch: initial() runs check_permissions before the handler
\* is looked up and called; a refusal is the response.
Dispatch(w, op, role, D, P) ==
    /\ req[w].pc = "idle"
    /\ \E in \in Inputs(op, D, P) :
          LET r == [in EXCEPT !.op = op, !.role = role]
          IN  /\ HasRoom(op, in)
              /\ IF check_permissions(op, role)
                 THEN Set(w, [r EXCEPT !.pc = FirstPc(op)])
                 ELSE Set(w, Finish(r, "denied"))
    /\ UNCHANGED store

\* A caller outside the views loads a photo and saves it through the
\* model or the serializer.
Call(w, op) ==
    /\ req[w].pc = "idle"
    /\ \E in \in Inputs(op, {DefaultResident}, {NoParams}) :
          Set(w, [in EXCEPT !.op = op, !.role = "internal",
                            !.pc = "get_photo"])
    /\ UNCHANGED store

Return(w) ==
    /\ req[w].pc = "done"
    /\ Set(w, Idle)
    /\ UNCHANGED store

Health(w) ==
    /\ req[w].pc = "health"
    /\ Set(w, Finish(req[w], "200"))
    /\ UNCHANGED <<store, hist>>

\* TokenObtainPairView / TokenRefreshView: the token library decides.
Token(w) ==
    /\ req[w].pc = "token"
    /\ \E resp \in {"200", "401"} : Set(w, Finish(req[w], resp))
    /\ UNCHANGED <<store, hist>>

Range(s) == {s[i] : i \in 1..Len(s)}

\* A registration that does not look the username up first.
register_lookup_unchecked(r, us) ==
    IF ~Truthy(r.username) \/ ~Truthy(r.password) THEN Finish(r, "400")
    ELSE [r EXCEPT !.pc = "create_user"]

\* register, up to User.objects.filter(username=username).exists().
register_lookup(r, us) ==
    IF ~Truthy(r.username) \/ ~Truthy(r.password) THEN Finish(r, "400")
    ELSE IF r.username \in Range(us) THEN Finish(r, "400")
    ELSE [r EXCEPT !.pc = "create_user"]

Register(w) ==
    /\ req[w].pc = "register"
    /\ Set(w, register_lookup(req[w], users))
    /\ UNCHANGED <<store, hist>>

\* User.objects.create_user: auth_user.username is unique, the INSERT of a
\* taken name raises IntegrityError.
CreateUser(w) ==
    /\ req[w].pc = "create_user"
    /\ IF req[w].username \in Range(users)
       THEN /\ Set(w, Finish(req[w], "500"))
            /\ UNCHANGED users
       ELSE /\ users' = Append(users, req[w].username)
            /\ Set(w, Finish(req[w], "201"))
    /\ UNCHANGED <<residents, photos, nextRid, nextPid, hist>>

AdminSummary(w) ==
    /\ req[w].pc = "summary"
    /\ Set(w, Finish([req[w] EXCEPT !.touched = TRUE,
                                    !.n = Cardinality(DOMAIN photos)], "200"))
    /\ UNCHANGED <<store, hist>>

----------------------------------------------------------------------------
(* ResidentViewSet *)

ResidentList(w) ==
    /\ req[w].pc = "list"
    /\ \E seq \in get_queryset(residents, req[w].params.q,
                               req[w].params.apartment,
                               req[w].params.is_active) :
          Set(w, Finish([req[w] EXCEPT !.touched = TRUE, !.listing = seq],
                        "200"))
    /\ UNCHANGED <<store, hist>>

ResidentCreate(w) ==
    /\ req[w].pc = "create"
    /\ IF ~req[w].valid
       THEN /\ Set(w, Finish(req[w], "400"))
            /\ UNCHANGED <<residents, nextRid>>
       ELSE /\ residents' = residents @@ (nextRid :> req[w].data)
            /\ nextRid' = nextRid + 1
            /\ Set(w, Finish([req[w] EXCEPT !.touched = TRUE,
                                            !.rid = nextRid], "201"))
    /\ UNCHANGED <<photos, nextPid, users, hist>>

AfterGetResident(op) ==
    CASE op = "resident_retrieve" -> "done"
      [] op \in {"resident_update", "resident_partial_update"} -> "update"
      [] op = "resident_destroy" -> "destroy"
      [] op = "resident_photos_get" -> "photos_list"
      [] op = "resident_photos_post" -> "validate"

\* self.get_object(): the lookup goes through get_queryset, a miss is 404.
ResidentGetObject(w) ==
    /\ req[w].pc = "get_resident"
    /\ LET r == [req[w] EXCEPT !.touched = TRUE]
           found == req[w].rid \in
                        FilterResidents(residents, r.params.q,
                                        r.params.apartment, r.params.is_active)
       IN  IF ~found THEN Set(w, Finish(r, "404"))
           ELSE IF AfterGetResident(r.op) = "done" THEN Set(w, Finish(r, "200"))
           ELSE Set(w, [r EXCEPT !.pc = AfterGetResident(r.op)])
    /\ UNCHANGED <<store, hist>>

\* update / partial_update: serializer.save() writes the row back; Django
\* inserts it again under the same key when the UPDATE matches no row.
ResidentUpdate(w) ==
    /\ req[w].pc = "update"
    /\ IF ~req[w].valid
       THEN /\ Set(w, Finish(req[w], "400"))
            /\ UNCHANGED residents
       ELSE /\ residents' =
                  IF req[w].rid \in DOMAIN residents
                  THEN [residents EXCEPT ![req[w].rid] = req[w].data]
                  ELSE residents @@ (req[w].rid :> req[w].data)
            /\ Set(w, Finish(req[w], "200"))
    /\ UNCHANGED <<photos, nextRid, nextPid, users, hist>>

ResidentDestroy(w) ==
    /\ req[w].pc = "destroy"
    /\ LET d == CascadeDelete(residents, photos, req[w].rid)
       IN  /\ residents' = d.residents
           /\ photos' = d.photos
           /\ Set(w, Finish([req[w] EXCEPT
                    !.n = Cardinality(DOMAIN photos \ DOMAIN d.photos)], "204"))
    /\ UNCHANGED <<nextRid, nextPid, users, hist>>

\* photos (GET): the response lists the resident's photos with their flags;
\* seen is the number of them it shows as primary.
PhotosList(w) ==
    /\ req[w].pc = "photos_list"
    /\ Set(w, Finish([req[w] EXCEPT
             !.seen = Cardinality(Primaries(photos, req[w].rid))], "200"))
    /\ UNCHANGED <<store, hist>>

\* photos (POST): serializer.is_valid() checks the image and that the
\* resident key names a row; the instance to create carries the resident
\* and the requested flag (default False).
PhotosValidate(w) ==
    /\ req[w].pc = "validate"
    /\ IF ~req[w].valid \/ req[w].rid \notin DOMAIN residents
       THEN Set(w, Finish(req[w], "400"))
       ELSE Set(w, [req[w] EXCEPT !.pc = "save", !.resident = req[w].rid,
                                  !.is_primary = (req[w].data_primary = "true")])
    /\ UNCHANGED <<store, hist>>

\* photos (POST) after serializer.save(): demote again when the new photo
\* is primary.
UploadDemoteStep(w) ==
    /\ req[w].pc = "upload_demote"
    /\ photos' = UploadDemote(photos, req[w].rid, req[w].pid)
    /\ Set(w, Finish(req[w], "201"))
    /\ UNCHANGED <<residents, nextRid, nextPid, users, hist>>

----------------------------------------------------------------------------
(* Photo.save *)

\* Where control returns once Photo.save is over.
AfterSave(r) ==
    CASE r.op = "resident_photos_post" ->
            IF r.is_primary THEN [r EXCEPT !.pc = "upload_demote"]
            ELSE Finish(r, "201")
      [] r.op = "photo_set_primary" -> Finish(r, "200")
      [] OTHER -> Finish(r, "saved")

\* The row write of super().save(): an INSERT for a new instance, an UPDATE
\* of is_primary alone under update_fields (an error when no row matches),
\* otherwise an UPDATE of the whole row that becomes an INSERT under the
\* same key when no row matches.  The foreign key must name a resident.
\* The result is the new table, or FALSE when the database raises.
SaveRow(r, ph, rs, next) ==
    CASE r.op = "resident_photos_post" ->
            IF r.resident \in DOMAIN rs
            THEN [ok |-> TRUE, pid |-> next,
                  photos |-> ph @@ (next :> [resident |-> r.resident,
                                             is_primary |-> r.is_primary])]
            ELSE [ok |-> FALSE, pid |-> 0, photos |-> ph]
      [] r.op = "photo_set_primary" ->
            IF r.pid \in DOMAIN ph
            THEN [ok |-> TRUE, pid |-> r.pid,
                  photos |-> [ph EXCEPT ![r.pid].is_primary = TRUE]]
            ELSE [ok |-> FALSE, pid |-> r.pid, photos |-> ph]
      [] OTHER ->
            IF r.resident \notin DOMAIN rs
            THEN [ok |-> FALSE, pid |-> r.pid, photos |-> ph]
            ELSE IF r.pid \in DOMAIN ph
            THEN [ok |-> TRUE, pid |-> r.pid,
                  photos |-> [ph EXCEPT ![r.pid] =
                                 [resident |-> r.resident,
                                  is_primary |-> r.is_primary]]]
            ELSE [ok |-> TRUE, pid |-> r.pid,
                  photos |-> ph @@ (r.pid :> [resident |-> r.resident,
                                              is_primary |-> r.is_primary])]

PhotoSaveWrite(w) ==
    /\ req[w].pc = "save"
    /\ LET res == SaveRow(req[w], photos, residents, nextPid)
           r == [req[w] EXCEPT !.pid = res.pid]
       IN  IF ~res.ok
           THEN /\ Set(w, Finish(req[w], "500"))
                /\ UNCHANGED <<photos, nextPid>>
           ELSE /\ photos' = res.photos
                /\ nextPid' = IF r.op = "resident_photos_post"
                              THEN nextPid + 1 ELSE nextPid
                /\ IF r.is_primary
                   THEN Set(w, [r EXCEPT !.pc = "save_demote"])
                   ELSE Set(w, AfterSave(r))
    /\ UNCHANGED <<residents, nextRid, users, hist>>

PhotoSaveDemote(w) ==
    /\ req[w].pc = "save_demote"
    /\ photos' = SaveDemote(photos, req[w].resident, req[w].pid)
    /\ Set(w, AfterSave(req[w]))
    /\ UNCHANGED <<residents, nextRid, nextPid, users, hist>>

----------------------------------------------------------------------------
(* PhotoViewSet and the direct callers *)

\* What follows the load of the photo, by operation.  photo_save assigns
\* the flag on the loaded instance; serializer_update first validates that
\* a resident key in the data names a row.
AfterGetPhoto(r, rs) ==
    CASE r.op = "photo_retrieve" -> Finish(r, "200")
      [] r.op = "photo_destroy" -> [r EXCEPT !.pc = "delete_photo"]
      [] r.op = "photo_set_primary" -> [r EXCEPT !.pc = "sp_demote"]
      [] r.op = "photo_save" ->
            [r EXCEPT !.pc = "save",
                      !.is_primary = IF r.data_primary = "absent"
                                     THEN r.is_primary
                                     ELSE r.data_primary = "true"]
      [] OTHER ->
            IF r.data_res # 0 /\ r.data_res \notin DOMAIN rs
            THEN Finish(r, "400")
            ELSE [r EXCEPT !.pc = "update_photo"]

\* self.get_object() (or Photo.objects.get for a direct caller): the
\* instance is a copy of the row as it is now.
PhotoGetObject(w) ==
    /\ req[w].pc = "get_photo"
    /\ IF req[w].pid \notin DOMAIN photos
       THEN Set(w, Finish([req[w] EXCEPT !.touched = TRUE], "404"))
       ELSE Set(w, AfterGetPhoto(
                [req[w] EXCEPT !.touched = TRUE,
                               !.resident = photos[req[w].pid].resident,
                               !.is_primary = photos[req[w].pid].is_primary],
                residents))
    /\ UNCHANGED <<store, hist>>

PhotoDestroy(w) ==
    /\ req[w].pc = "delete_photo"
    /\ photos' = [p \in DOMAIN photos \ {req[w].pid} |-> photos[p]]
    /\ Set(w, Finish(req[w], "204"))
    /\ UNCHANGED <<residents, nextRid, nextPid, users, hist>>

\* set_primary: demote the others (n is the number of rows the UPDATE
\* changed), then flag and save the photo unless the loaded instance is
\* already primary.
SetPrimaryDemoteStep(w) ==
    /\ req[w].pc = "sp_demote"
    /\ photos' = SetPrimaryDemote(photos, req[w].resident, req[w].pid)
    /\ LET r == [req[w] EXCEPT !.n =
                    Cardinality(Primaries(photos, req[w].resident)
                                    \ {req[w].pid})]
       IN  IF ~r.is_primary
           THEN Set(w, [r EXCEPT !.is_primary = TRUE, !.pc = "save"])
           ELSE Set(w, Finish(r, "200"))
    /\ UNCHANGED <<residents, nextRid, nextPid, users, hist>>

\* PhotoSerializer.update: inside transaction.atomic() the fields of
\* validated_data are set on the instance, the instance is saved
\* (Photo.save, with its demotion) and the others are demoted again.  The
\* block commits as one step, or not at all when the database raises.
SerializerUpdate(w) ==
    /\ req[w].pc = "update_photo"
    /\ LET r == [req[w] EXCEPT
                    !.resident = IF req[w].data_res # 0
                                 THEN req[w].data_res ELSE req[w].resident,
                    !.is_primary = IF req[w].data_primary = "absent"
                                   THEN req[w].is_primary
                                   ELSE req[w].data_primary = "true"]
           res == SaveRow(r, photos, residents, nextPid)
           ph1 == IF r.is_primary
                  THEN SaveDemote(res.photos, r.resident, r.pid)
                  ELSE res.photos
           ph2 == IF r.is_primary
                  THEN UpdateDemote(ph1, r.resident, r.pid)
                  ELSE ph1
       IN  IF ~res.ok
           THEN /\ Set(w, Finish(r, "500"))
                /\ UNCHANGED photos
           ELSE /\ photos' = ph2
                /\ Set(w, Finish(r, "updated"))
    /\ UNCHANGED <<residents, nextRid, nextPid, users, hist>>

\* The statements that write photo rows.
PhotoWritePcs ==
    {"save", "save_demote", "upload_demote", "sp_demote", "delete_photo",
     "update_photo"}

\* The database fails the statement a request is about to run: the
\* statement has no effect, the exception ends the request with a server
\* error, and what the request's earlier statements committed stays.
StorageFailure(w) ==
    /\ req[w].pc \in PhotoWritePcs
    /\ Set(w, Finish(req[w], "500"))
    /\ UNCHANGED <<store, hist>>

----------------------------------------------------------------------------
(* Specifications *)

NoLast == [pid |-> 0, photos |-> NoPhotos]

NoSnapshot == [photos |-> NoPhotos, users |-> <<>>]

Init ==
    /\ residents = NoResidents
    /\ photos = NoPhotos
    /\ nextRid = 1
    /\ nextPid = 1
    /\ users = <<>>
    /\ req = [w \in Workers |-> Idle]
    /\ pre = NoSnapshot
    /\ last = NoLast

\* The requests that write photos, and the reader of a resident's photos.
PhotoStoreOps ==
    {"resident_create", "resident_destroy", "resident_photos_get",
     "resident_photos_post", "photo_retrieve", "photo_destroy",
     "photo_set_primary"}

\* Concurrent workers on the photo store.
Arrive(w) ==
    /\ \E op \in PhotoStoreOps :
          Dispatch(w, op, "staff", {DefaultResident}, {NoParams})
    /\ UNCHANGED hist

\* Photo.save called directly.  PhotoSerializer.update, one atomic write,
\* is left to the serial specifications.
ArriveCall(w) ==
    /\ Call(w, "photo_save")
    /\ UNCHANGED hist

Respond(w) ==
    /\ Return(w)
    /\ UNCHANGED hist

PhotoStoreSteps(w) ==
    \/ ResidentCreate(w)
    \/ ResidentGetObject(w)
    \/ ResidentDestroy(w)
    \/ PhotosList(w)
    \/ PhotosValidate(w)
    \/ PhotoSaveWrite(w)
    \/ PhotoSaveDemote(w)
    \/ UploadDemoteStep(w)
    \/ PhotoGetObject(w)
    \/ PhotoDestroy(w)
    \/ SetPrimaryDemoteStep(w)

Next ==
    \E w \in Workers :
        \/ Arrive(w)
        \/ ArriveCall(w)
        \/ Respond(w)
        \/ PhotoStoreSteps(w)

Spec == Init /\ [][Next]_vars

\* One request at a time, handled by one worker from arrival to response.
\* pre is the photo and user tables as the request found them; last is the set_primary
\* call that has just been answered with success.
Solo == "w1"

Quiescent == \A w \in Workers : req[w].pc = "idle"

SerialArrive(ops, roles, D, P) ==
    /\ Quiescent
    /\ \E op \in ops, role \in roles : Dispatch(Solo, op, role, D, P)
    /\ pre' = [photos |-> photos, users |-> users]
    /\ UNCHANGED last

SerialCall ==
    /\ Quiescent
    /\ \E op \in InternalOps : Call(Solo, op)
    /\ pre' = [photos |-> photos, users |-> users]
    /\ UNCHANGED last

SerialRespond ==
    /\ Return(Solo)
    /\ pre' = NoSnapshot
    /\ last' = IF req[Solo].op = "photo_set_primary" /\ req[Solo].resp = "200"
               THEN [pid |-> req[Solo].pid, photos |-> photos]
               ELSE NoLast

\* Photo store, serial.
ArrivePhotoStore ==
    SerialArrive(PhotoStoreOps, {"staff"}, {DefaultResident}, {NoParams})

NextSerial ==
    \/ ArrivePhotoStore
    \/ SerialCall
    \/ SerialRespond
    \/ PhotoStoreSteps(Solo)
    \/ SerializerUpdate(Solo)

SpecSerial == Init /\ [][NextSerial]_vars

\* Photo store, serial, on a database that may fail a write.
NextFailure ==
    \/ ArrivePhotoStore
    \/ SerialCall
    \/ SerialRespond
    \/ PhotoStoreSteps(Solo)
    \/ SerializerUpdate(Solo)
    \/ StorageFailure(Solo)

SpecFailure == Init /\ [][NextFailure]_vars

\* Every endpoint, every role, serial.
ArriveAny == SerialArrive(HttpOps, Roles, {DefaultResident}, {NoParams})

NextAccess ==
    \/ ArriveAny
    \/ SerialRespond
    \/ Health(Solo)
    \/ Token(Solo)
    \/ Register(Solo)
    \/ CreateUser(Solo)
    \/ AdminSummary(Solo)
    \/ ResidentList(Solo)
    \/ ResidentUpdate(Solo)
    \/ PhotoStoreSteps(Solo)

SpecAccess == Init /\ [][NextAccess]_vars

\* Registration, serial.
ArriveAccounts ==
    SerialArrive({"register", "health", "token_obtain", "token_refresh"},
                 Roles, {DefaultResident}, {NoParams})

NextAccounts ==
    \/ ArriveAccounts
    \/ SerialRespond
    \/ Register(Solo)
    \/ CreateUser(Solo)
    \/ Health(Solo)
    \/ Token(Solo)

SpecAccounts == Init /\ [][NextAccounts]_vars

\* Resident listing, serial: residents are created with varied fields and
\* listed with varied query parameters.
ArriveListing ==
    SerialArrive({"resident_create", "resident_list"}, {"authenticated"},
                 ResidentData, ListParams)

NextListing ==
    \/ ArriveListing
    \/ SerialRespond
    \/ ResidentCreate(Solo)
    \/ ResidentList(Solo)

SpecListing == Init /\ [][NextListing]_vars

----------------------------------------------------------------------------
(* Properties *)

Flags(ph) == [p \in DOMAIN ph |-> ph[p].is_primary]

\* The request has set photo r.pid primary and has been answered.
SetAPrimary(r) ==
    /\ r.pc = "done"
    /\ r.is_primary
    /\ \/ r.op = "photo_set_primary" /\ r.resp = "200"
       \/ r.op = "resident_photos_post" /\ r.resp = "201"
       \/ r.op = "photo_save" /\ r.resp = "saved"
       \/ r.op = "serializer_update" /\ r.resp = "updated"

\* C1: requests run one after the other (upload, set_primary, serializer
\* update, direct Photo.save, photo delete, resident delete): whenever no
\* write is under way, every resident has at most one primary photo.
C1_AtMostOnePrimary ==
    req[Solo].pc \in {"idle", "done"} =>
        \A r \in RIds : Cardinality(Primaries(photos, r)) <= 1

\* A write has just made a photo primary in place of another one.
C1_Witness ==
    /\ SetAPrimary(req[Solo])
    /\ Primaries(photos, req[Solo].resident) = {req[Solo].pid}
    /\ \E p \in DOMAIN pre.photos :
          /\ p # req[Solo].pid
          /\ pre.photos[p].is_primary
          /\ pre.photos[p].resident = req[Solo].resident

\* C2 (as claimed): when two requests that each set a different photo of
\* the same resident primary have both been answered, exactly one photo of
\* that resident is primary.
C2_ExactlyOnePrimaryAfterRace ==
    \A v, w \in Workers :
        ( /\ v # w
          /\ SetAPrimary(req[v])
          /\ SetAPrimary(req[w])
          /\ req[v].pid # req[w].pid
          /\ req[v].resident = req[w].resident )
        => Cardinality(Primaries(photos, req[v].resident)) = 1

\* C3 (as claimed): a reader of the store never sees two primary photos for
\* one resident, and there is no state in which set_primary has demoted a
\* sibling while the photo itself is not yet flagged primary.
C3_WritesLookAtomic ==
    /\ \A w \in Workers :
          (req[w].pc = "done" /\ req[w].op = "resident_photos_get")
              => req[w].seen <= 1
    /\ \A w \in Workers :
          ~ ( /\ req[w].op = "photo_set_primary"
              /\ req[w].pc = "save"
              /\ req[w].n > 0
              /\ req[w].pid \in DOMAIN photos
              /\ ~photos[req[w].pid].is_primary )

\* The policy matrix: who may call what.
Policy(op, role) ==
    CASE op \in {"health", "register", "token_obtain", "token_refresh"} -> TRUE
      [] op \in {"resident_destroy", "admin_summary"} -> role = "staff"
      [] OTHER -> role \in {"authenticated", "staff"}

\* C4: a request is refused exactly when the policy matrix denies its role
\* the action; a refusal is the immediate answer, made before any resident
\* or photo row is read, and it leaves the store as it was.
C4_AccessControl ==
    [][\A w \in Workers :
          (req[w].pc = "idle" /\ req'[w].pc # "idle") =>
              /\ (req'[w].resp = "denied") <=> ~Policy(req'[w].op, req'[w].role)
              /\ (req'[w].resp = "denied") =>
                    /\ req'[w].pc = "done"
                    /\ ~req'[w].touched
                    /\ store' = store]_vars

\* A logged-in user without staff rights was refused the deletion of a
\* resident that does not exist.
C4_Witness ==
    /\ req[Solo].pc = "done"
    /\ req[Solo].resp = "denied"
    /\ req[Solo].op = "resident_destroy"
    /\ req[Solo].role = "authenticated"
    /\ req[Solo].rid \notin DOMAIN residents
    /\ residents # NoResidents

\* C5 (as claimed): a storage failure that ends set_primary after the
\* demotion of the siblings and before the photo is flagged rolls the
\* request back: the primary flags are what they were when it started.
C5_FailureRollsBack ==
    LET r == req[Solo]
    IN  ( /\ r.pc = "done"
          /\ r.resp = "500"
          /\ r.op = "photo_set_primary"
          /\ r.pid \in DOMAIN photos
          /\ ~photos[r.pid].is_primary )
        => Flags(photos) = Flags(pre.photos)

\* C6: set_primary on an existing photo succeeds and leaves that photo the
\* only primary of its resident; called again right after, it succeeds and
\* leaves the store as the first call left it.
C6_SetPrimaryIdempotent ==
    LET r == req[Solo]
    IN  (r.pc = "done" /\ r.op = "photo_set_primary") =>
            /\ r.resp # "404" =>
                  /\ r.resp = "200"
                  /\ Primaries(photos, r.resident) = {r.pid}
            /\ last.pid = r.pid =>
                  /\ r.resp = "200"
                  /\ photos = last.photos

\* The second of two set_primary calls in a row has been answered, for a
\* photo that has a sibling.
C6_Witness ==
    /\ req[Solo].pc = "done"
    /\ req[Solo].op = "photo_set_primary"
    /\ req[Solo].resp = "200"
    /\ last.pid = req[Solo].pid
    /\ Cardinality(PhotosOf(photos, req[Solo].resident)) >= 2

\* C7: a step of a request that writes photo r.pid of resident r.resident
\* changes the primary flag of no other photo that belongs to another
\* resident.
C7_Isolation ==
    [][\A w \in Workers :
          req'[w] # req[w] =>
              \A p \in DOMAIN photos \cap DOMAIN photos' :
                  ( /\ p # req'[w].pid
                    /\ photos'[p].is_primary # photos[p].is_primary )
                  => photos[p].resident = req'[w].resident]_vars

\* A photo was set primary while another resident had a primary photo,
\* which it still has.
C7_Witness ==
    /\ SetAPrimary(req[Solo])
    /\ \E p \in DOMAIN pre.photos \cap DOMAIN photos :
          /\ pre.photos[p].resident # req[Solo].resident
          /\ pre.photos[p].is_primary
          /\ photos[p].is_primary

\* The listing, as claimed: a parameter restricts unless it is absent.
CISubstring(q, field) ==
    \E i \in 1..(Len(field) + 1) :
        /\ i + Len(q) - 1 <= Len(field)
        /\ \A k \in 1..Len(q) : LowerChar(field[i + k - 1]) = LowerChar(q[k])

TrueTokens == {<<"1">>, <<"t", "r", "u", "e">>, <<"y", "e", "s">>}

Selected(row, x, apartmentUnset) ==
    /\ \/ x.q = Absent
       \/ \E f \in {row.first_name, row.last_name, row.apartment, row.phone,
                    row.email} : CISubstring(x.q, f)
    /\ \/ apartmentUnset
       \/ row.apartment = x.apartment
    /\ \/ x.is_active = Absent
       \/ row.is_active = ([i \in 1..Len(x.is_active) |->
                               LowerChar(x.is_active[i])] \in TrueTokens)

ListedExactly(r, chosen) ==
    /\ {r.listing[i] : i \in 1..Len(r.listing)} = chosen
    /\ Len(r.listing) = Cardinality(chosen)

\* C8 (as claimed): the listing holds exactly the residents that satisfy
\* q, apartment and is_active, each restricting unless absent.
C8_ListingAsClaimed ==
    (req[Solo].pc = "done" /\ req[Solo].op = "resident_list") =>
        ListedExactly(req[Solo],
            {i \in DOMAIN residents :
                Selected(residents[i], req[Solo].params,
                         req[Solo].params.apartment = Absent)})

\* C8 (amended): the same, with an apartment parameter that is absent or
\* empty imposing no restriction.
C8_Listing ==
    (req[Solo].pc = "done" /\ req[Solo].op = "resident_list") =>
        ListedExactly(req[Solo],
            {i \in DOMAIN residents :
                Selected(residents[i], req[Solo].params,
                         req[Solo].params.apartment \in {Absent, <<>>})})

\* A listing with all three parameters given that keeps one resident and
\* drops another.
C8_Witness ==
    /\ req[Solo].pc = "done"
    /\ req[Solo].op = "resident_list"
    /\ Truthy(req[Solo].params.q)
    /\ Truthy(req[Solo].params.apartment)
    /\ req[Solo].params.is_active # Absent
    /\ Len(req[Solo].listing) = 1
    /\ Cardinality(DOMAIN residents) = 2

\* C9: a registration without username or password, or with a username in
\* use, is answered 400 and leaves the accounts as they were; any other is
\* answered 201 and adds one account with that username; no two accounts
\* share a username.
C9_Registration ==
    /\ \A i, j \in 1..Len(users) : users[i] = users[j] => i = j
    /\ LET r == req[Solo]
       IN  (r.pc = "done" /\ r.op = "register") =>
               IF \/ r.username = Absent
                  \/ r.password = Absent
                  \/ \E i \in 1..Len(pre.users) : pre.users[i] = r.username
               THEN r.resp = "400" /\ users = pre.users
               ELSE r.resp = "201" /\ users = pre.users \o <<r.username>>

\* A registration with a username in use has been refused, and two
\* accounts exist.
C9_Witness ==
    /\ req[Solo].pc = "done"
    /\ req[Solo].op = "register"
    /\ req[Solo].resp = "400"
    /\ req[Solo].password # Absent
    /\ Len(users) = 2
    /\ \E i \in 1..Len(users) : users[i] = req[Solo].username

\* C10: every photo references a resident that exists, and the deletion of
\* a resident removes all the photos it owned.
C10_Cascade ==
    /\ \A p \in DOMAIN photos : photos[p].resident \in DOMAIN residents
    /\ LET r == req[Solo]
       IN  (r.pc = "done" /\ r.op = "resident_destroy" /\ r.resp = "204") =>
               /\ r.rid \notin DOMAIN residents
               /\ PhotosOf(photos, r.rid) = {}
               /\ r.n = Cardinality(PhotosOf(pre.photos, r.rid))
               /\ DOMAIN photos = DOMAIN pre.photos \ PhotosOf(pre.photos, r.rid)

\* A resident that owned two photos has been deleted.
C10_Witness ==
    /\ req[Solo].pc = "done"
    /\ req[Solo].op = "resident_destroy"
    /\ req[Solo].resp = "204"
    /\ Cardinality(PhotosOf(pre.photos, req[Solo].rid)) = 2

============================================================================
